---------------------------- MODULE Spec2Model ----------------------------
(***************************************************************************)
(* A model of the auto-start core of interact.js                           *)
(* (packages/auto-start/base.ts): the ancestry walk that resolves an       *)
(* action for a pointer event, the three-tier interaction limit, the       *)
(* prepare / start / stop handlers and the single cursor override.         *)
(***************************************************************************)
EXTENDS Integers, Sequences, FiniteSets, TLC

(***************************************************************************)
(* Bounds of the model.                                                    *)
(***************************************************************************)
NumSessions == 2      \* length of scope.interactions.list
NumElements == 3      \* elements of the document: a chain 3 -> 2 -> 1 -> document
NumTargets == 2       \* registered interactables, in registry order

Sessions == 1..NumSessions
Elements == 1..NumElements
Targets == 1..NumTargets

\* null for an element, an interactable or a rect
Null == 0
\* Infinity: larger than every count the model can reach
Infinity == 1000000
\* prepared.name === null
NoName == "null"
Actions == {"drag", "resize"}

\* JavaScript values handed to maxInteractions and returned by it
JSNumber(n) == [type |-> "number", val |-> n]
JSUndefined == [type |-> "undefined", val |-> 0]
\* the string "2"
JSString == [type |-> "string", val |-> 2]
\* `this` of the call (the setter's return value)
JSThis == [type |-> "this", val |-> 0]

VARIABLES
    interactables,   \* scope.interactables: the registry, read-only for this core
    interactions,    \* scope.interactions.list: the sessions, in list order
    autoStart,       \* scope.autoStart: maxInteractions and cursorElement
    style,           \* element.style.cursor of every element
    docCursor,       \* ownerDocument.documentElement.style.cursor
    last             \* the last operation and what it did (history)

vars == <<interactables, interactions, autoStart, style, docCursor, last>>

(***************************************************************************)
(* External collaborators: the DOM, the target registry, the session.      *)
(***************************************************************************)
\* utils.dom.parentNode: the parent of element 1 is the document
parentNode(element) == element - 1

\* utils.is.element: the document is no element
isElement(node) == node \in Elements

\* scope.interactables.forEachMatch(element, pushMatches): the targets that
\* match the element, in registry order
RECURSIVE forEachMatchFrom(_, _)
forEachMatchFrom(t, element) ==
    IF t > NumTargets THEN <<>>
    ELSE (IF element \in interactables[t].els THEN <<t>> ELSE <<>>)
         \o forEachMatchFrom(t + 1, element)

forEachMatch(element) == forEachMatchFrom(1, element)

\* interactable.getAction(pointer, event, interaction, element): the action
\* the event's geometry hints at, when the target offers it
getAction(t, hint) ==
    IF hint \in interactables[t].offers THEN hint ELSE NoName

\* interactable.testIgnoreAllow(options, element, eventTarget)
testIgnoreAllow(t, element, eventTarget) ==
    eventTarget # interactables[t].ignoreFrom

\* interactable.getRect(element)
getRect(element) == element

\* scope.actions[name].getCursor(prepared)
getCursor(name) == IF name = "drag" THEN "move" ELSE "ew-resize"

\* utils.is.number
isNumber(v) == v.type = "number"

\* interaction.interacting()
interacting(interaction) == interaction.interacting

(***************************************************************************)
(* withinInteractionLimit                                                  *)
(***************************************************************************)
\* a number used as a condition: 0 is falsy, every other number is truthy
Truthy(n) == n # 0

\* line 278: no actions if any of these values == 0
AnyCapFalsy(maxActions, maxPerElement, autoStartMax) ==
    ~(Truthy(maxActions) /\ Truthy(maxPerElement) /\ Truthy(autoStartMax))

\* the cap compared as an inclusive bound
GlobalCapReached_Inclusive(activeInteractions, autoStartMax) ==
    activeInteractions > autoStartMax

\* line 287
GlobalCapReached(activeInteractions, autoStartMax) ==
    activeInteractions >= autoStartMax

\* line 291
OtherInteractable(interaction, interactable) ==
    interaction.interactable # interactable

\* max compared as an inclusive bound
TargetCapReached_Inclusive(interactableCount, maxActions) ==
    interactableCount > maxActions

\* line 295
TargetCapReached(interactableCount, maxActions) ==
    interactableCount >= maxActions

\* line 302
ElementCapReached(otherAction, name, elementCount, maxPerElement) ==
    otherAction = name /\ elementCount >= maxPerElement

\* line 308
LimitFallThrough(autoStartMax) == autoStartMax > 0

\* the loop of lines 280-306 from index i on, and the final return
RECURSIVE limitLoop(_, _, _, _, _, _, _, _, _, _, _)
limitLoop(list, i, activeInteractions, interactableCount, elementCount, interactable, element, name, maxActions, maxPerElement, autoStartMax) ==
    IF i > Len(list) THEN LimitFallThrough(autoStartMax)
    ELSE
      LET interaction == list[i]
          otherAction == interaction.prepared
          ai == activeInteractions + 1
          ic == interactableCount + (IF otherAction = name THEN 1 ELSE 0)
          ec == elementCount + 1
      IN  IF ~interacting(interaction)
          THEN limitLoop(list, i + 1, activeInteractions, interactableCount,
                         elementCount, interactable, element, name,
                         maxActions, maxPerElement, autoStartMax)
          ELSE IF GlobalCapReached(ai, autoStartMax) THEN FALSE
          ELSE IF OtherInteractable(interaction, interactable)
          THEN limitLoop(list, i + 1, ai, interactableCount, elementCount,
                         interactable, element, name,
                         maxActions, maxPerElement, autoStartMax)
          ELSE IF TargetCapReached(ic, maxActions) THEN FALSE
          ELSE IF interaction.element = element
          THEN IF ElementCapReached(otherAction, name, ec, maxPerElement)
               THEN FALSE
               ELSE limitLoop(list, i + 1, ai, ic, ec, interactable, element,
                              name, maxActions, maxPerElement, autoStartMax)
          ELSE limitLoop(list, i + 1, ai, ic, elementCount, interactable,
                         element, name, maxActions, maxPerElement, autoStartMax)

\* withinInteractionLimit over a given session list and global cap
withinLimitOf(list, autoStartMax, interactable, element, name) ==
    LET maxActions == interactables[interactable].options[name].max
        maxPerElement == interactables[interactable].options[name].maxPerElement
    IN  IF AnyCapFalsy(maxActions, maxPerElement, autoStartMax) THEN FALSE
        ELSE limitLoop(list, 1, 0, 0, 0, interactable, element, name,
                       maxActions, maxPerElement, autoStartMax)

withinInteractionLimit(interactable, element, name) ==
    withinLimitOf(interactions, autoStart.maxInteractions,
                  interactable, element, name)

(***************************************************************************)
(* The resolver: validateAction, validateMatches, getActionInfo            *)
(***************************************************************************)
NoActionInfo == [action |-> NoName, interactable |-> Null, element |-> Null]

\* validation that skips the allow/ignore filter
validateAction_Unfiltered(name, interactable, element, eventTarget) ==
    IF /\ interactables[interactable].options[name].enabled
       /\ withinInteractionLimit(interactable, element, name)
    THEN name
    ELSE NoName

validateAction(name, interactable, element, eventTarget) ==
    IF /\ testIgnoreAllow(interactable, element, eventTarget)
       /\ interactables[interactable].options[name].enabled
       /\ withinInteractionLimit(interactable, element, name)
    THEN name
    ELSE NoName

\* the loop of validateMatches from index i on: every match sits on the
\* same element (matchElements[i] is the element of the walk)
RECURSIVE validateMatchesFrom(_, _, _, _, _)
\* the first candidate that proposes an action decides for the node, valid
\* or not
validateMatchesFrom_FirstProposer(i, matches, matchElement, hint, eventTarget) ==
    IF i > Len(matches) THEN NoActionInfo
    ELSE
      LET match == matches[i]
          matchAction == getAction(match, hint)
      IN  IF matchAction = NoName
          THEN validateMatchesFrom(i + 1, matches, matchElement, hint,
                                   eventTarget)
          ELSE IF validateAction(matchAction, match, matchElement,
                                 eventTarget) # NoName
          THEN [action |-> matchAction, interactable |-> match,
                element |-> matchElement]
          ELSE NoActionInfo

validateMatchesFrom(i, matches, matchElement, hint, eventTarget) ==
    IF i > Len(matches) THEN NoActionInfo
    ELSE
      LET match == matches[i]
          matchAction == getAction(match, hint)
          action == IF matchAction = NoName THEN NoName
                    ELSE validateAction(matchAction, match, matchElement,
                                        eventTarget)
      IN  IF action # NoName
          THEN [action |-> action, interactable |-> match,
                element |-> matchElement]
          ELSE validateMatchesFrom(i + 1, matches, matchElement, hint,
                                   eventTarget)

validateMatches(matches, matchElement, hint, eventTarget) ==
    validateMatchesFrom(1, matches, matchElement, hint, eventTarget)

\* the node's winner returned whether or not it is manual-start
AutoStartable_AnyMatch(actionInfo) == actionInfo.action # NoName

\* the manualStart flag read of the wrong sense
AutoStartable_OnlyManual(actionInfo) ==
    /\ actionInfo.action # NoName
    /\ interactables[actionInfo.interactable]
           .options[actionInfo.action].manualStart

\* lines 228-229: the node's winner is returned unless it is manual-start
AutoStartable(actionInfo) ==
    /\ actionInfo.action # NoName
    /\ ~interactables[actionInfo.interactable]
           .options[actionInfo.action].manualStart

\* the while loop of getActionInfo from `element` on
RECURSIVE getActionInfoFrom(_, _, _)
getActionInfoFrom(element, hint, eventTarget) ==
    IF ~isElement(element) THEN NoActionInfo
    ELSE
      LET actionInfo == validateMatches(forEachMatch(element), element, hint,
                                        eventTarget)
      IN  IF AutoStartable(actionInfo) THEN actionInfo
          ELSE getActionInfoFrom(parentNode(element), hint, eventTarget)

getActionInfo(hint, eventTarget) ==
    getActionInfoFrom(eventTarget, hint, eventTarget)

(***************************************************************************)
(* The cursor: setCursor, setInteractionCursor                             *)
(***************************************************************************)
\* the cursor state the handlers thread through
Cursor == [cursorElement |-> autoStart.cursorElement,
           style |-> style, docCursor |-> docCursor]

\* setCursor without lines 322-324: the previous element is not cleared
setCursor_KeepsPrevious(c, element, cursor) ==
    [cursorElement |-> IF cursor # "" THEN element ELSE Null,
     style |-> [c.style EXCEPT ![element] = cursor],
     docCursor |-> cursor]

setCursor(c, element, cursor) ==
    LET cleared == IF c.cursorElement # Null
                   THEN [c.style EXCEPT ![c.cursorElement] = ""]
                   ELSE c.style
    IN  [cursorElement |-> IF cursor # "" THEN element ELSE Null,
         style |-> [cleared EXCEPT ![element] = cursor],
         docCursor |-> cursor]

\* lines 334: the cursor is styled for mouse sessions on styling targets
StylesCursor(interaction) ==
    /\ interaction.pointerType = "mouse"
    /\ interaction.interactable # Null
    /\ interactables[interaction.interactable].styleCursor

setInteractionCursor(c, interaction) ==
    IF ~StylesCursor(interaction) THEN c
    ELSE LET cursor == IF interaction.prepared # NoName
                       THEN getCursor(interaction.prepared)
                       ELSE ""
         IN  setCursor(c, interaction.element, cursor)

\* lines 145 and 251: the session's target styles cursors
ClearsCursor(interaction) ==
    /\ interaction.interactable # Null
    /\ interactables[interaction.interactable].styleCursor

\* a stop handler that leaves the cursor alone
clearCursorOnStop_Never(c, interaction) == c

\* clearCursorOnStop, the handler of interactions:stop
clearCursorOnStop(c, interaction) ==
    IF ClearsCursor(interaction)
    THEN setCursor(c, interaction.element, "")
    ELSE c

(***************************************************************************)
(* prepare, and the session's own start and stop                           *)
(***************************************************************************)
\* prepare: the session and the cursor state after it
prepareSession(interaction, actionInfo) ==
    [interaction EXCEPT
        !.interactable = actionInfo.interactable,
        !.element = actionInfo.element,
        !.prepared = actionInfo.action,
        !.rect = IF actionInfo.interactable # Null /\ actionInfo.action # NoName
                 THEN getRect(actionInfo.element) ELSE Null]

\* prepare without lines 250-253: the previous element keeps its cursor
prepareCursor_KeepsPrevious(c, interaction, actionInfo) ==
    setInteractionCursor(c, prepareSession(interaction, actionInfo))

prepareCursor(c, interaction, actionInfo) ==
    LET c1 == IF ClearsCursor(interaction)
              THEN setCursor(c, interaction.element, "")
              ELSE c
    IN  setInteractionCursor(c1, prepareSession(interaction, actionInfo))

\* interaction.start(prepared, interactable, element)
startSession(interaction) ==
    [interaction EXCEPT !.rect = getRect(interaction.element),
                        !.interacting = TRUE]

\* interaction.stop(): the fields after the stop signal was delivered
stopSession(interaction) ==
    [interaction EXCEPT !.interactable = Null, !.element = Null,
                        !.interacting = FALSE, !.prepared = NoName]


(***************************************************************************)
(* The signal handlers.  Each returns the list and the cursor state after  *)
(* it, whether the session was started or stopped by startOnMove, and the  *)
(* calls and signals it made, in order.                                    *)
(***************************************************************************)
Outcome(list, c, start, fired) ==
    [list |-> list, cursor |-> c, start |-> start, fired |-> fired]

\* the handler returned at its guard
Ignored(list, c) == Outcome(list, c, "no", <<>>)

\* prepare(interaction, actionInfo, scope) for session s of the list, called
\* with the result of getActionInfo
prepare(list, c, s, actionInfo) ==
    Outcome([list EXCEPT ![s] = prepareSession(list[s], actionInfo)],
            prepareCursor(c, list[s], actionInfo), "no",
            <<"getActionInfo", "autoStart:prepared">>)

\* a pointer-down that prepares an active session again
DownIgnored_Never(interaction) == FALSE

\* the guard of prepareOnDown
DownIgnored(interaction) == interacting(interaction)

prepareOnDown(list, c, s, hint, eventTarget) ==
    IF DownIgnored(list[s]) THEN Ignored(list, c)
    ELSE prepare(list, c, s, getActionInfo(hint, eventTarget))

\* a guard that lets every pointer type hover
HoverIgnored_AnyPointer(interaction) ==
    \/ interaction.pointerIsDown
    \/ interacting(interaction)

\* the guard of prepareOnMove
HoverIgnored(interaction) ==
    \/ interaction.pointerType # "mouse"
    \/ interaction.pointerIsDown
    \/ interacting(interaction)

prepareOnMove(list, c, s, hint, eventTarget) ==
    IF HoverIgnored(list[s]) THEN Ignored(list, c)
    ELSE prepare(list, c, s, getActionInfo(hint, eventTarget))

\* a guard that does not ask for the pointer to be down
StartIgnored_PointerUp(interaction) ==
    \/ interacting(interaction)
    \/ ~interaction.pointerWasMoved
    \/ interaction.prepared = NoName

\* the guard of startOnMove, lines 118-123
StartIgnored(interaction) ==
    \/ ~interaction.pointerIsDown
    \/ interacting(interaction)
    \/ ~interaction.pointerWasMoved
    \/ interaction.prepared = NoName

\* a start decision that checks manualStart only
StartRefused_NoRecheck(list, interaction) ==
    interactables[interaction.interactable]
        .options[interaction.prepared].manualStart

\* lines 131-132: manualStart, or the limit no longer admits the session
StartRefused(list, interaction) ==
    \/ interactables[interaction.interactable]
           .options[interaction.prepared].manualStart
    \/ ~withinLimitOf(list, autoStart.maxInteractions,
                      interaction.interactable, interaction.element,
                      interaction.prepared)

\* interaction.stop(): the stop signal runs clearCursorOnStop, then the
\* session forgets its target
stop(list, c, s) ==
    Outcome([list EXCEPT ![s] = stopSession(list[s])],
            clearCursorOnStop(c, list[s]), "stopped", <<"interaction.stop">>)

startOnMove(list, c, s) ==
    LET interaction == list[s]
        beforeStart == <<"autoStart:before-start">>
    IN
    IF StartIgnored(interaction) THEN Ignored(list, c)
    ELSE IF interaction.prepared # NoName /\ interaction.interactable # Null
    THEN IF StartRefused(list, interaction)
         THEN [stop(list, c, s) EXCEPT !.fired = beforeStart \o @]
         ELSE LET started == startSession(interaction)
              IN  Outcome([list EXCEPT ![s] = started],
                          setInteractionCursor(c, started), "started",
                          beforeStart \o <<"interaction.start">>)
    ELSE Outcome(list, c, "no", beforeStart)

\* the handler of interactions:move: prepareOnMove, then startOnMove
onMove(list, c, s, hint, eventTarget) ==
    LET p == prepareOnMove(list, c, s, hint, eventTarget)
        o == startOnMove(p.list, p.cursor, s)
    IN  [o EXCEPT !.fired = p.fired \o @]

\* maxInteractions(newValue, scope): the cap after the call and the value
\* returned
\* a setter that returns without storing the number
maxInteractions_NotStored(newValue) ==
    IF isNumber(newValue)
    THEN [cap |-> autoStart.maxInteractions, ret |-> JSThis]
    ELSE [cap |-> autoStart.maxInteractions,
          ret |-> JSNumber(autoStart.maxInteractions)]

maxInteractions(newValue) ==
    IF isNumber(newValue)
    THEN [cap |-> newValue.val, ret |-> JSThis]
    ELSE [cap |-> autoStart.maxInteractions,
          ret |-> JSNumber(autoStart.maxInteractions)]

(***************************************************************************)
(* The pointer bookkeeping the session does before it fires a signal       *)
(***************************************************************************)
\* Interaction.pointerDown
pointerDown(interaction) ==
    IF interacting(interaction) THEN interaction
    ELSE [interaction EXCEPT !.pointerIsDown = TRUE,
                             !.pointerWasMoved = FALSE]

\* Interaction.pointerMove: movement past the tolerance is recorded once
pointerMove(interaction, moved) ==
    IF interaction.pointerIsDown /\ ~interaction.pointerWasMoved
    THEN [interaction EXCEPT !.pointerWasMoved = moved]
    ELSE interaction

\* Interaction.pointerUp, or a stop forced while the pointer stays down
pointerUp(interaction, up) ==
    IF up THEN [interaction EXCEPT !.pointerIsDown = FALSE] ELSE interaction

(***************************************************************************)
(* Actions                                                                 *)
(***************************************************************************)
\* what `last` records: the operation, its session, whether it started or
\* stopped the session, the cursor element a stop found, and the argument
\* and the return value of a call
Event(op, s, start, cursor) ==
    [op |-> op, s |-> s, start |-> start, cursor |-> cursor,
     arg |-> JSUndefined, ret |-> JSUndefined]

\* `last` keeps the events that started or stopped a session: a stop with
\* the cursor element it found, a move with its start decision
Decision(o, op, s) ==
    IF op = "stop" THEN Event(op, s, o.start, autoStart.cursorElement)
    ELSE IF o.start # "no" THEN Event(op, s, o.start, Null)
    ELSE Event("event", Null, "no", Null)

Apply(o, op, s) ==
    /\ interactions' = o.list
    /\ autoStart' = [autoStart EXCEPT !.cursorElement = o.cursor.cursorElement]
    /\ style' = o.cursor.style
    /\ docCursor' = o.cursor.docCursor
    /\ last' = Decision(o, op, s)
    /\ UNCHANGED interactables

\* the handlers of interactions:down on session s, run after the session's
\* own bookkeeping
onDownOf(s, hint, eventTarget) ==
    LET list == [interactions EXCEPT ![s] = pointerDown(interactions[s])]
    IN  prepareOnDown(list, Cursor, s, hint, eventTarget)

\* the handlers of interactions:move on session s
onMoveOf(s, hint, eventTarget, moved) ==
    LET list == [interactions EXCEPT ![s] = pointerMove(interactions[s], moved)]
    IN  onMove(list, Cursor, s, hint, eventTarget)

\* interactions:down on session s
Down(s, hint, eventTarget) ==
    Apply(onDownOf(s, hint, eventTarget), "down", s)

\* interactions:move on session s
Move(s, hint, eventTarget, moved) ==
    Apply(onMoveOf(s, hint, eventTarget, moved), "move", s)

\* interactions:stop on session s: the pointer went up, or the session was
\* stopped while the pointer is down
Stop(s, up) ==
    LET list == [interactions EXCEPT ![s] = pointerUp(interactions[s], up)]
    IN  Apply(stop(list, Cursor, s), "stop", s)

\* the values interact.maxInteractions is called with
CapValues == {0, 2, Infinity}
NewValues == {JSNumber(n) : n \in CapValues} \cup {JSUndefined, JSString}

\* interact.maxInteractions(newValue)
MaxInteractions(newValue) ==
    LET r == maxInteractions(newValue) IN
    /\ autoStart' = [autoStart EXCEPT !.maxInteractions = r.cap]
    /\ last' = [Event("maxInteractions", Null, "no", Null) EXCEPT
                    !.arg = newValue, !.ret = r.ret]
    /\ UNCHANGED <<interactables, interactions, style, docCursor>>

\* the actions an event can hint at: those some registered target offers
\* (any other hint resolves nothing, like an event on an unmatched element)
Hints == UNION {interactables[t].offers : t \in Targets}

Events ==
    \/ \E s \in Sessions, hint \in Hints, eventTarget \in Elements :
          Down(s, hint, eventTarget)
    \/ \E s \in Sessions, hint \in Hints, eventTarget \in Elements,
          moved \in BOOLEAN : Move(s, hint, eventTarget, moved)
    \/ \E s \in Sessions, up \in BOOLEAN : Stop(s, up)

Next ==
    \/ Events
    \/ \E newValue \in NewValues : MaxInteractions(newValue)

(***************************************************************************)
(* Initial states: the registry and the sessions after install             *)
(***************************************************************************)
Option(enabled, max, maxPerElement, manualStart) ==
    [enabled |-> enabled, max |-> max, maxPerElement |-> maxPerElement,
     manualStart |-> manualStart]

\* the per-action defaults of install, lines 65-75, for an enabled action
DefaultOption == Option(TRUE, Infinity, 1, FALSE)

Interactable(els, offers, ignoreFrom, styleCursor, option) ==
    [els |-> els, offers |-> offers, ignoreFrom |-> ignoreFrom,
     styleCursor |-> styleCursor, options |-> [a \in Actions |-> option]]

\* a new session: nothing prepared, pointer up
IdleSession(pointerType) ==
    [pointerType |-> pointerType, pointerIsDown |-> FALSE,
     pointerWasMoved |-> FALSE, prepared |-> NoName, interactable |-> Null,
     element |-> Null, rect |-> Null, interacting |-> FALSE]

\* an element-based target matches its element, a selector-based one may
\* match several
Selectors == {{NumElements}, {NumElements - 1}, {NumElements - 1, NumElements}}

InitWith(registries, caps, pointerTypes) ==
    /\ interactables \in registries
    /\ interactions \in [Sessions -> {IdleSession(p) : p \in pointerTypes}]
    /\ autoStart \in {[maxInteractions |-> n, cursorElement |-> Null] : n \in caps}
    /\ style = [e \in Elements |-> ""]
    /\ docCursor = ""
    /\ last = Event("install", Null, "no", Null)

\* what target t matches: the first an element, the others a selector
\* over that element and its parent
MatchedBy(t) ==
    IF t = 1 THEN {NumElements} ELSE {NumElements - 1, NumElements}

\* a session as the limit and the resolver see it: idle, or holding a
\* target it matched, prepared or active
HeldSession(t, element, name, active) ==
    [pointerType |-> "touch", pointerIsDown |-> TRUE,
     pointerWasMoved |-> active, prepared |-> name, interactable |-> t,
     element |-> element, rect |-> getRect(element), interacting |-> active]

SessionStates(registry) ==
    {IdleSession("touch")} \cup
    {HeldSession(t, element, name, active) :
        t \in Targets, element \in Elements, name \in Actions,
        active \in BOOLEAN}

\* the session states in which the target matches the element and offers
\* the action
ValidSessionStates(registry) ==
    {x \in SessionStates(registry) :
        x.interactable # Null =>
            /\ x.element \in registry[x.interactable].els
            /\ x.prepared \in registry[x.interactable].offers}

(***************************************************************************)
(* Spec: the whole machine, targets with the defaults on an element and on *)
(* a selector over it and its parent, one mouse session and touch sessions *)
(***************************************************************************)
PointerTypeOf(s) == IF s = 1 THEN "mouse" ELSE "touch"

Registries ==
    {[t \in Targets |->
        Interactable(MatchedBy(t), {"drag"}, Null, TRUE, DefaultOption)]}

Init ==
    /\ InitWith(Registries, {Infinity}, {"mouse", "touch"})
    /\ \A s \in Sessions : interactions[s].pointerType = PointerTypeOf(s)

Spec == Init /\ [][Next]_vars

(***************************************************************************)
(* SpecSetter: the whole machine with touch sessions only                  *)
(***************************************************************************)
InitSetter == InitWith(Registries, {Infinity}, {"touch"})

SpecSetter == InitSetter /\ [][Next]_vars

(***************************************************************************)
(* SpecLimit: withinInteractionLimit applied to every session list and     *)
(* every combination of caps                                               *)
(***************************************************************************)
LimitCaps == {-1, 0, 1, 2, Infinity}

\* target 1 carries the caps under test, the other targets the defaults;
\* every target is a selector over the two innermost elements and offers
\* every action
LimitRegistries ==
    {[t \in Targets |->
        Interactable({NumElements - 1, NumElements}, Actions, Null, TRUE,
                     IF t = 1 THEN Option(TRUE, max, maxPerElement, FALSE)
                     ELSE DefaultOption)] :
     max \in LimitCaps, maxPerElement \in LimitCaps}

InitLimit ==
    /\ interactables \in LimitRegistries
    /\ interactions \in [Sessions -> ValidSessionStates(interactables)]
    /\ autoStart \in {[maxInteractions |-> n, cursorElement |-> Null] :
                      n \in LimitCaps}
    /\ style = [e \in Elements |-> ""]
    /\ docCursor = ""
    /\ last = Event("install", Null, "no", Null)

\* a call of withinInteractionLimit(interactable, element, action, scope)
CheckLimit(t, element, name) ==
    /\ last' = [Event("withinInteractionLimit", Null, "no", Null) EXCEPT
                    !.arg = [interactable |-> t, element |-> element,
                             name |-> name],
                    !.ret = [type |-> "boolean",
                             val |-> withinInteractionLimit(t, element, name)]]
    /\ UNCHANGED <<interactables, interactions, autoStart, style, docCursor>>

NextLimit ==
    \E t \in Targets :
        \E element \in interactables[t].els, name \in interactables[t].offers :
            CheckLimit(t, element, name)

SpecLimit == InitLimit /\ [][NextLimit]_vars

(***************************************************************************)
(* SpecCap: the global cap fixed at N >= 1, targets otherwise              *)
(* unconstrained (max and maxPerElement unbounded)                         *)
(***************************************************************************)
Unconstrained == Option(TRUE, Infinity, Infinity, FALSE)

CapRegistries ==
    {[t \in Targets |->
        Interactable(MatchedBy(t), {"drag"}, Null, TRUE, Unconstrained)]}

InitCap == InitWith(CapRegistries, 1..NumSessions, {"touch"})

SpecCap == InitCap /\ [][Events]_vars

(***************************************************************************)
(* SpecMax: selector targets over two elements, maxPerElement unbounded;   *)
(* target 1 offers drag with max = 1, the other targets all offer drag     *)
(* without a max or all offer resize with max = 1                          *)
(***************************************************************************)
MaxOne(name) ==
    Interactable({NumElements - 1, NumElements}, {name}, Null, TRUE,
                 Option(TRUE, 1, Infinity, FALSE))

MaxRegistries ==
    {[t \in Targets |-> IF t = 1 THEN MaxOne("drag") ELSE other] :
     other \in {MaxOne("resize"),
                Interactable({NumElements - 1, NumElements}, {"drag"}, Null,
                             TRUE, Unconstrained)}}

InitMax == InitWith(MaxRegistries, {Infinity}, {"touch"})

SpecMax == InitMax /\ [][Events]_vars

(***************************************************************************)
(* SpecDefaults: the defaults of install; maxInteractions is never called  *)
(* and every target keeps the per-action defaults                          *)
(***************************************************************************)
DefaultRegistries ==
    [Targets -> {Interactable(els, {"drag"}, Null, TRUE, DefaultOption) :
                 els \in Selectors}]

InitDefaults == InitWith(DefaultRegistries, {Infinity}, {"touch"})

SpecDefaults == InitDefaults /\ [][Events]_vars

(***************************************************************************)
(* SpecResolve: getActionInfo applied to every registry of targets that    *)
(* are auto- or manual-start, enabled or not, offering the hinted action   *)
(* or not, with or without an ignored element, and to every list of idle   *)
(* and active sessions                                                     *)
(***************************************************************************)
\* every target is on the innermost element or a selector over it and its
\* parent, and auto- or manual-start; target 1 offers drag, offers drag
\* disabled, or offers resize only, and the last target may ignore events
\* from the innermost element
ResolveRegistries ==
    {[t \in Targets |->
        Interactable(els[t],
                     IF t = 1 /\ first = "resize" THEN {"resize"}
                     ELSE {"drag"},
                     IF t = NumTargets THEN ignoreFrom ELSE Null, TRUE,
                     Option(t # 1 \/ first # "disabled", Infinity, 1,
                            manualStart[t]))] :
     els \in [Targets -> {{NumElements}, {NumElements - 1, NumElements}}],
     manualStart \in [Targets -> BOOLEAN],
     ignoreFrom \in {Null, NumElements},
     first \in {"drag", "disabled", "resize"}}

\* the limit reads the active sessions only
ActiveOrIdle(registry) ==
    {x \in ValidSessionStates(registry) :
        x.interactable # Null => x.interacting}

InitResolve ==
    /\ interactables \in ResolveRegistries
    /\ interactions \in [Sessions -> ActiveOrIdle(interactables)]
    /\ autoStart = [maxInteractions |-> Infinity, cursorElement |-> Null]
    /\ style = [e \in Elements |-> ""]
    /\ docCursor = ""
    /\ last = Event("install", Null, "no", Null)

\* a call of getActionInfo(interaction, pointer, event, eventTarget, scope)
Resolve(hint, eventTarget) ==
    /\ last' = [Event("getActionInfo", Null, "no", Null) EXCEPT
                    !.arg = [hint |-> hint, eventTarget |-> eventTarget],
                    !.ret = getActionInfo(hint, eventTarget)]
    /\ UNCHANGED <<interactables, interactions, autoStart, style, docCursor>>

NextResolve ==
    \E hint \in Hints, eventTarget \in Elements : Resolve(hint, eventTarget)

SpecResolve == InitResolve /\ [][NextResolve]_vars

(***************************************************************************)
(* SpecCursor: targets that style the cursor or not, a mouse session, a    *)
(* mouse or touch session and further touch sessions                       *)
(***************************************************************************)
\* target 1 styles the cursor or not, the others do
CursorRegistries ==
    {[t \in Targets |->
        Interactable(MatchedBy(t), {"drag"}, Null, t # 1 \/ styleCursor,
                     DefaultOption)] :
     styleCursor \in BOOLEAN}

\* session 1 is a mouse session, session 2 a mouse or a touch session, the
\* others touch sessions
InitCursor ==
    /\ InitWith(CursorRegistries, {Infinity}, {"mouse", "touch"})
    /\ interactions[1].pointerType = "mouse"
    /\ \A s \in Sessions : s > 2 => interactions[s].pointerType = "touch"

SpecCursor == InitCursor /\ [][Events]_vars

(***************************************************************************)
(* SpecPrepare: targets that style the cursor or not, one mouse session    *)
(* and touch sessions                                                      *)
(***************************************************************************)
InitPrepare ==
    /\ InitWith(CursorRegistries, {Infinity}, {"mouse", "touch"})
    /\ \A s \in Sessions : interactions[s].pointerType = PointerTypeOf(s)

SpecPrepare == InitPrepare /\ [][Events]_vars

(***************************************************************************)
(* SpecLifecycle: the handlers over a registry whose first target has the  *)
(* defaults, is disabled, is manual-start or ignores events from its own   *)
(* element; one mouse session and touch sessions                           *)
(***************************************************************************)
LifecycleVariants == {"default", "disabled", "manualStart", "ignoreFrom"}

LifecycleRegistries ==
    {[t \in Targets |->
        IF t # 1
        THEN Interactable(MatchedBy(t), {"drag"}, Null, TRUE, DefaultOption)
        ELSE Interactable(MatchedBy(t), {"drag"},
                          IF variant = "ignoreFrom" THEN NumElements ELSE Null,
                          TRUE,
                          Option(variant # "disabled", Infinity, 1,
                                 variant = "manualStart"))] :
     variant \in LifecycleVariants}

InitLifecycle ==
    /\ InitWith(LifecycleRegistries, {Infinity}, {"mouse", "touch"})
    /\ \A s \in Sessions : interactions[s].pointerType = PointerTypeOf(s)

SpecLifecycle == InitLifecycle /\ [][Events]_vars

(***************************************************************************)
(* Counting the sessions                                                   *)
(***************************************************************************)
Active == {s \in Sessions : interacting(interactions[s])}

ActiveOn(t, name) ==
    {s \in Active : /\ interactions[s].interactable = t
                    /\ interactions[s].prepared = name}

IsIdle(interaction) ==
    /\ interaction.interactable = Null
    /\ interaction.element = Null
    /\ interaction.prepared = NoName
    /\ ~interacting(interaction)

(***************************************************************************)
(* C1                                                                      *)
(***************************************************************************)
\* the options withinInteractionLimit was last called for
CalledOptions ==
    interactables[last.arg.interactable].options[last.arg.name]

\* C1: withinInteractionLimit returns false whenever max, maxPerElement or
\* the global cap is <= 0, whatever the session list holds.
C1_NonPositiveCapRejects ==
    last.op = "withinInteractionLimit" =>
        ((\/ CalledOptions.max <= 0
          \/ CalledOptions.maxPerElement <= 0
          \/ autoStart.maxInteractions <= 0)
         => last.ret.val = FALSE)

\* the step is a pointer-move of session s that reaches the start decision
\* of startOnMove: pointer down, movement recorded, not active, prepared
StartAttempt(s) ==
    /\ interactions[s].pointerIsDown
    /\ interactions'[s].pointerWasMoved
    /\ ~interacting(interactions[s])
    /\ interactions[s].prepared # NoName
    /\ \A r \in Sessions \ {s} : interactions'[r] = interactions[r]
    /\ \E hint \in Hints, eventTarget \in Elements, moved \in BOOLEAN :
          Move(s, hint, eventTarget, moved)

\* the step is a pointer-down of session s that runs the resolver
DownResolved(s) ==
    /\ ~interacting(interactions[s])
    /\ interactions'[s].pointerIsDown
    /\ ~interactions'[s].pointerWasMoved
    /\ last'.op = "event"
    /\ \A r \in Sessions \ {s} : interactions'[r] = interactions[r]
    /\ \E hint \in Hints, eventTarget \in Elements :
          Down(s, hint, eventTarget)

(***************************************************************************)
(* C2                                                                      *)
(***************************************************************************)
C2_NeverMoreThanCap == Cardinality(Active) <= autoStart.maxInteractions

C2_AdmitBelowCap ==
    \A s \in Sessions :
        StartAttempt(s) =>
            IF Cardinality(Active) < autoStart.maxInteractions
            THEN interacting(interactions'[s]) /\ last'.start = "started"
            ELSE IsIdle(interactions'[s]) /\ last'.start = "stopped"

\* C2: with the global cap fixed at N >= 1 and unconstrained targets, a
\* start attempt made while fewer than N sessions are active is admitted,
\* one made while N are active is rejected, and never more than N sessions
\* are active.
C2_GlobalCap == [] C2_NeverMoreThanCap /\ [][C2_AdmitBelowCap]_vars

\* a start attempt was just rejected while N sessions are active
C2_Witness ==
    /\ last.op = "move"
    /\ last.start = "stopped"
    /\ Cardinality(Active) = autoStart.maxInteractions

(***************************************************************************)
(* C3                                                                      *)
(***************************************************************************)
MaxOf(t, name) == interactables[t].options[name].max

C3_AtMostOnePerTarget ==
    \A t \in Targets, name \in Actions :
        MaxOf(t, name) = 1 => Cardinality(ActiveOn(t, name)) <= 1

\* the session holds target t for the action while another session is
\* active with them
C3_SecondOf(s, t, name) ==
    /\ MaxOf(t, name) = 1
    /\ ActiveOn(t, name) \ {s} # {}

C3_StoppedAtMove ==
    \A s \in Sessions :
        (/\ interactions[s].interactable # Null
         /\ C3_SecondOf(s, interactions[s].interactable,
                        interactions[s].prepared)
         /\ StartAttempt(s))
        => IsIdle(interactions'[s]) /\ last'.start = "stopped"

\* no pointer-down resolves the taken target and action for the session;
\* when no other target offers the action, it resolves to none
C3_NoneAtDown ==
    \A first \in Active, s \in Sessions :
        LET t == interactions[first].interactable
            name == interactions[first].prepared
        IN  (s # first /\ MaxOf(t, name) = 1) =>
               /\ (/\ interactions'[s].interactable = t
                   /\ interactions'[s].prepared = name) => ~DownResolved(s)
               /\ (/\ \A u \in Targets \ {t} :
                         name \notin interactables[u].offers
                   /\ interactions'[s].prepared = name) => ~DownResolved(s)

\* C3: with max = 1 for an action on target T, of two sessions that go down
\* on two different elements matched to T only the first is admitted: at
\* most one session is active with T and the action, and the other one ends
\* idle (it resolves to none at down, or it is stopped at its move).
C3_MaxOne ==
    /\ [] C3_AtMostOnePerTarget
    /\ [][C3_StoppedAtMove /\ C3_NoneAtDown]_vars

\* two sessions went down on different elements of T, the first was
\* started and the second was stopped at its move
C3_Witness ==
    \E s1, s2 \in Sessions :
        /\ s1 # s2
        /\ interacting(interactions[s1])
        /\ MaxOf(interactions[s1].interactable, interactions[s1].prepared) = 1
        /\ last.op = "move" /\ last.s = s2 /\ last.start = "stopped"
        /\ IsIdle(interactions[s2])
        /\ interactions[s2].rect # Null
        /\ interactions[s2].rect # getRect(interactions[s1].element)

(***************************************************************************)
(* C4                                                                      *)
(***************************************************************************)
\* C4: with maxPerElement = 1 on every registered target, no two sessions
\* are active at the same time on the same element with the same action
\* name, whichever registered targets matching the element they hold.
C4_OnePerElement ==
    (\A t \in Targets, name \in Actions :
        interactables[t].options[name].maxPerElement = 1)
    => \A s1, s2 \in Active :
          (/\ interactions[s1].element = interactions[s2].element
           /\ interactions[s1].prepared = interactions[s2].prepared)
          => s1 = s2

(***************************************************************************)
(* C10                                                                     *)
(***************************************************************************)
\* C10: with the defaults installed by the plugin only 1 interaction is
\* allowed at a time: at most one session is active.
C10_OneInteractionByDefault == Cardinality(Active) <= 1

(***************************************************************************)
(* C5, C6: the resolver against the matches of each node                   *)
(***************************************************************************)
\* target t is a validated match of the node for the hinted action: it
\* matches the node, proposes the action, and the action is not excluded,
\* is enabled and is within the limits
ValidatedAt(node, hint, eventTarget) ==
    {t \in Targets :
        /\ node \in interactables[t].els
        /\ hint \in interactables[t].offers
        /\ eventTarget # interactables[t].ignoreFrom
        /\ interactables[t].options[hint].enabled
        /\ withinInteractionLimit(t, node, hint)}

\* the node's match: its first validated target in registry order
FirstOf(S) == CHOOSE t \in S : \A u \in S : t <= u

ManualStart(t, name) == interactables[t].options[name].manualStart

\* the event target and its ancestors
Ancestry(eventTarget) == {node \in Elements : node <= eventTarget}

\* C5: when the event target's node has a validated match that requires
\* manual start and its parent node has a validated match that does not
\* (each being the node's match, its first validated candidate),
\* getActionInfo returns the parent's match: its action, target and element.
C5_ParentOverManualChild ==
    last.op = "getActionInfo" =>
        LET hint == last.arg.hint
            child == last.arg.eventTarget
            parent == parentNode(child)
            atChild == ValidatedAt(child, hint, child)
            atParent == ValidatedAt(parent, hint, child)
        IN  (/\ isElement(parent)
             /\ atChild # {} /\ ManualStart(FirstOf(atChild), hint)
             /\ atParent # {} /\ ~ManualStart(FirstOf(atParent), hint))
            => last.ret = [action |-> hint, interactable |-> FirstOf(atParent),
                           element |-> parent]

\* the resolver was called on a child whose match is manual-start under a
\* parent whose match is auto-start
C5_Witness ==
    /\ last.op = "getActionInfo"
    /\ isElement(parentNode(last.arg.eventTarget))
    /\ LET hint == last.arg.hint
           child == last.arg.eventTarget
           atChild == ValidatedAt(child, hint, child)
           atParent == ValidatedAt(parentNode(child), hint, child)
       IN  /\ atChild # {} /\ ManualStart(FirstOf(atChild), hint)
           /\ atParent # {} /\ ~ManualStart(FirstOf(atParent), hint)
           /\ last.ret.element = parentNode(child)

\* C6: getActionInfo never returns a manual-start match, and when the only
\* validated matches in the ancestry are manual-start it returns none.
C6_NeverManualStart ==
    last.op = "getActionInfo" =>
        LET hint == last.arg.hint
            eventTarget == last.arg.eventTarget
        IN  /\ last.ret.interactable # Null
               => ~ManualStart(last.ret.interactable, last.ret.action)
            /\ (\A node \in Ancestry(eventTarget) :
                  \A t \in ValidatedAt(node, hint, eventTarget) :
                      ManualStart(t, hint))
               => last.ret = NoActionInfo

\* the resolver was called where a manual-start match is validated and none
\* was returned
C6_Witness ==
    /\ last.op = "getActionInfo"
    /\ \E node \in Ancestry(last.arg.eventTarget) :
          ValidatedAt(node, last.arg.hint, last.arg.eventTarget) # {}
    /\ \A node \in Ancestry(last.arg.eventTarget) :
          \A t \in ValidatedAt(node, last.arg.hint, last.arg.eventTarget) :
              ManualStart(t, last.arg.hint)
    /\ last.ret = NoActionInfo

(***************************************************************************)
(* C7, C8: the cursor override                                             *)
(***************************************************************************)
\* the elements that bear an overridden cursor style (the root of the
\* owning document mirrors the override in docCursor)
Styled == {e \in Elements : style[e] # ""}

\* C7: at most one element has a non-empty overridden cursor style, and if
\* one does it is the element recorded in autoStart.cursorElement (whose
\* cursor the document root repeats).
C7_OneStyledElement ==
    /\ Cardinality(Styled) <= 1
    /\ \A e \in Styled : e = autoStart.cursorElement
    /\ docCursor = IF autoStart.cursorElement = Null THEN ""
                   ELSE style[autoStart.cursorElement]

\* the override moved: two sessions hold styling targets on different
\* elements for a prepared action, and the element of one of them bears
\* the override
C7_Witness ==
    \E s1, s2 \in Sessions :
        /\ StylesCursor(interactions[s1]) /\ StylesCursor(interactions[s2])
        /\ interactions[s1].prepared # NoName
        /\ interactions[s2].prepared # NoName
        /\ interactions[s1].element # interactions[s2].element
        /\ autoStart.cursorElement = interactions[s2].element
        /\ Styled = {interactions[s2].element}

\* the step delivers interactions:stop to session s, which holds the
\* element that bears the override it set
StopsCursorOwner(s) ==
    /\ last'.s = s
    /\ last'.start = "stopped"
    /\ StylesCursor(interactions[s])
    /\ autoStart.cursorElement # Null
    /\ interactions[s].element = autoStart.cursorElement

NoOverride ==
    /\ Styled = {}
    /\ autoStart.cursorElement = Null
    /\ docCursor = ""

C8_StopClears ==
    \A s \in Sessions : StopsCursorOwner(s) => NoOverride'

C8_IdleMeansNoOverride ==
    (\A s \in Sessions : IsIdle(interactions[s])) => NoOverride

\* C8: stopping the session that set the cursor override leaves no element
\* with an overridden cursor and cursorElement none; so whenever all
\* sessions are idle there is no cursor override.
C8_NoStuckCursor == [][C8_StopClears]_vars /\ [] C8_IdleMeansNoOverride

\* a stop was just delivered while an override was in effect, and all
\* sessions are idle now
C8_Witness ==
    /\ last.op = "stop"
    /\ last.cursor # Null
    /\ \A s \in Sessions : IsIdle(interactions[s])
    /\ NoOverride

(***************************************************************************)
(* C9                                                                      *)
(***************************************************************************)
\* the step is a call of maxInteractions with the value
CallsMaxInteractions(newValue) ==
    /\ last'.op = "maxInteractions"
    /\ last'.arg = newValue

C9_SetsNumber ==
    \A newValue \in NewValues :
        (CallsMaxInteractions(newValue) /\ isNumber(newValue))
        => autoStart'.maxInteractions = newValue.val

C9_GetsOtherwise ==
    \A newValue \in NewValues :
        (CallsMaxInteractions(newValue) /\ ~isNumber(newValue))
        => /\ last'.ret = JSNumber(autoStart.maxInteractions)
           /\ UNCHANGED <<interactables, interactions, autoStart, style,
                          docCursor>>

C9_TwoThenGet ==
    (/\ last.op = "maxInteractions"
     /\ last.arg = JSNumber(2)
     /\ last'.op = "maxInteractions"
     /\ ~isNumber(last'.arg))
    => last'.ret = JSNumber(2)

\* C9: maxInteractions called with a number N sets the global cap to N;
\* called with a non-numeric argument it returns the current cap and leaves
\* the cap and all other state unchanged, so after maxInteractions(2) a
\* non-numeric call returns 2.
C9_SetterGetter == [][C9_SetsNumber /\ C9_GetsOtherwise /\ C9_TwoThenGet]_vars

\* a non-numeric call returned the 2 that an earlier call had set
C9_Witness ==
    /\ last.op = "maxInteractions"
    /\ last.arg = JSString
    /\ last.ret = JSNumber(2)
    /\ autoStart.maxInteractions = 2

(***************************************************************************)
(* Steps of one session                                                    *)
(***************************************************************************)
\* the step changes no session but s
OnlySession(s) ==
    \A r \in Sessions \ {s} : interactions'[r] = interactions[r]

\* the calls and signals a handler made
Fired(o) == {o.fired[i] : i \in DOMAIN o.fired}

\* the step is a pointer-down or a hover pointer-move of session s with
\* this hint and event target, and it runs prepare
Prepares(s, hint, eventTarget) ==
    \/ /\ ~DownIgnored(interactions[s])
       /\ Down(s, hint, eventTarget)
    \/ /\ ~HoverIgnored(interactions[s])
       /\ \E moved \in BOOLEAN : Move(s, hint, eventTarget, moved)

(***************************************************************************)
(* C11                                                                     *)
(***************************************************************************)
C11_PreparedHasTarget ==
    \A s \in Sessions :
        interactions[s].prepared # NoName => interactions[s].interactable # Null

\* the three conditions of validateAction for what session x holds
C11_Validated(x, eventTarget) ==
    /\ x.interactable # Null
    /\ x.element \in interactables[x.interactable].els
    /\ testIgnoreAllow(x.interactable, x.element, eventTarget)
    /\ interactables[x.interactable].options[x.prepared].enabled
    /\ withinInteractionLimit(x.interactable, x.element, x.prepared)

C11_ValidatedAtPrepare ==
    \A s \in Sessions, hint \in Hints, eventTarget \in Elements :
        \A o \in {onDownOf(s, hint, eventTarget)} \cup
                 {onMoveOf(s, hint, eventTarget, moved) : moved \in BOOLEAN} :
            ("autoStart:prepared" \in Fired(o) /\ o.list[s].prepared # NoName)
            => /\ getAction(o.list[s].interactable, hint) = o.list[s].prepared
               /\ C11_Validated(o.list[s], eventTarget)

\* C11: in every state reached through down, move and stop events a
\* session with a prepared action has a target, and a down or move handler
\* that runs prepare there and records an action finds the target, element
\* and action not filtered out, enabled and within the limits.
C11_PreparedWasValidated ==
    C11_PreparedHasTarget /\ C11_ValidatedAtPrepare
\* a session is prepared on an element the first target matches, for
\* another target: validation passed over the first
C11_Witness ==
    \E s \in Sessions :
        /\ ~interacting(interactions[s])
        /\ interactions[s].prepared # NoName
        /\ interactions[s].interactable > 1
        /\ interactions[s].element \in interactables[1].els
        /\ interactions[s].rect = getRect(interactions[s].element)

(***************************************************************************)
(* C12                                                                     *)
(***************************************************************************)
\* the limit admits what session x holds, and the action is not
\* manual-start
C12_Admitted(x) ==
    /\ withinInteractionLimit(x.interactable, x.element, x.prepared)
    /\ ~interactables[x.interactable].options[x.prepared].manualStart

\* a move handler that finds the session prepared, with the pointer down
\* and movement recorded, starts it when it is admitted now, and stops it
\* without a start otherwise
C12_DecidedAtMove ==
    \A s \in Sessions, hint \in Hints, eventTarget \in Elements,
       moved \in BOOLEAN :
        LET x == pointerMove(interactions[s], moved)
            o == onMoveOf(s, hint, eventTarget, moved)
        IN
        (/\ x.pointerIsDown
         /\ x.pointerWasMoved
         /\ ~interacting(x)
         /\ x.prepared # NoName
         /\ x.interactable # Null)
        => IF C12_Admitted(x)
           THEN /\ interacting(o.list[s])
                /\ "interaction.start" \in Fired(o)
                /\ "interaction.stop" \notin Fired(o)
           ELSE /\ IsIdle(o.list[s])
                /\ "interaction.start" \notin Fired(o)
                /\ "interaction.stop" \in Fired(o)

C12_ActiveOnlyIfAdmitted ==
    \A s \in Sessions :
        (~interacting(interactions[s]) /\ interacting(interactions'[s]))
        => /\ interactions[s].interactable # Null
           /\ interactions[s].prepared # NoName
           /\ C12_Admitted(interactions[s])

\* C12: admission is checked again at start: a prepared session whose
\* pointer is down and has moved is started when withinInteractionLimit
\* holds then and the action is not manual-start, and is otherwise stopped
\* (back to idle) without its start being called; a session becomes active
\* only in a step where the limit admits it.
C12_RecheckedAtStart ==
    [] C12_DecidedAtMove /\ [][C12_ActiveOnlyIfAdmitted]_vars
\* a session that had been prepared was stopped at its move: another
\* session is active on the element it had prepared
C12_Witness ==
    /\ last.op = "move"
    /\ last.start = "stopped"
    /\ IsIdle(interactions[last.s])
    /\ \E a \in Active \ {last.s} :
          /\ interactions[last.s].rect = getRect(interactions[a].element)
          /\ ~withinInteractionLimit(interactions[a].interactable,
                                     interactions[a].element,
                                     interactions[a].prepared)

(***************************************************************************)
(* C13                                                                     *)
(***************************************************************************)
\* the active sessions on the element with the action
ActiveAt(element, name) ==
    {s \in Active : /\ interactions[s].element = element
                    /\ interactions[s].prepared = name}

\* the three-counter rule for the call `last` records
C13_Rule ==
    /\ Cardinality(Active) < autoStart.maxInteractions
    /\ Cardinality(ActiveOn(last.arg.interactable, last.arg.name))
         < CalledOptions.max
    /\ Cardinality(ActiveAt(last.arg.element, last.arg.name))
         < CalledOptions.maxPerElement

\* C13: for all caps >= 1 and every session list withinInteractionLimit
\* returns true exactly when the active sessions are fewer than the global
\* cap, those with the target and the action fewer than max, and those on
\* the element with the action fewer than maxPerElement.
C13_ThreeCounters ==
    (/\ last.op = "withinInteractionLimit"
     /\ CalledOptions.max >= 1
     /\ CalledOptions.maxPerElement >= 1
     /\ autoStart.maxInteractions >= 1)
    => (last.ret.val <=> C13_Rule)

(***************************************************************************)
(* C14                                                                     *)
(***************************************************************************)
\* the override is on the element of a session other than s that is still
\* prepared or active, and not on the element of s
C14_OverrideOfOther(s) ==
    /\ autoStart.cursorElement # Null
    /\ interactions[s].element # autoStart.cursorElement
    /\ \E r \in Sessions \ {s} :
          /\ interactions[r].element = autoStart.cursorElement
          /\ interactions[r].prepared # NoName

\* the step is interactions:stop of session s, or a down or hover move
\* that prepares it again
C14_StopsOrPrepares(s) ==
    /\ OnlySession(s)
    /\ \/ \E up \in BOOLEAN : Stop(s, up)
       \/ \E hint \in Hints, eventTarget \in Elements :
             Prepares(s, hint, eventTarget)

\* C14: the stop of a session, and its re-preparation, leave a cursor
\* override alone that is in effect for the element of another session
\* which is still prepared or active.
C14_OthersCursorKept ==
    [][\A s \in Sessions :
          (C14_OverrideOfOther(s) /\ C14_StopsOrPrepares(s))
          => UNCHANGED <<autoStart, style, docCursor>>]_vars

(***************************************************************************)
(* C15                                                                     *)
(***************************************************************************)
\* what a session holds
Held(x) ==
    [interactable |-> x.interactable, element |-> x.element,
     prepared |-> x.prepared, rect |-> x.rect]

\* the session holds what the resolver returned
C15_HoldsResult(x, actionInfo) ==
    /\ x.interactable = actionInfo.interactable
    /\ x.element = actionInfo.element
    /\ x.prepared = actionInfo.action

\* session s hovers: its pointer is not down and it is not active
C15_Hovers(s) ==
    /\ ~interactions[s].pointerIsDown
    /\ ~interacting(interactions[s])

\* C15: the handlers of a pointer-move of a session whose pointer is not
\* down and which is not active, whatever its pointer type, leave the
\* session with the target, element and action the resolver returns for
\* the event.
C15_HoverReresolves ==
    \A s \in Sessions :
        C15_Hovers(s) =>
            \A hint \in Hints, eventTarget \in Elements, moved \in BOOLEAN :
                C15_HoldsResult(onMoveOf(s, hint, eventTarget, moved).list[s],
                                getActionInfo(hint, eventTarget))

\* a hover move of a mouse session does what a pointer-down with the same
\* event does to the session and to the cursor
C15_MouseAsOnDown ==
    \A s \in Sessions :
        (C15_Hovers(s) /\ interactions[s].pointerType = "mouse") =>
            \A hint \in Hints, eventTarget \in Elements, moved \in BOOLEAN :
                LET down == onDownOf(s, hint, eventTarget)
                    move == onMoveOf(s, hint, eventTarget, moved)
                IN  /\ C15_HoldsResult(move.list[s],
                                       getActionInfo(hint, eventTarget))
                    /\ Held(move.list[s]) = Held(down.list[s])
                    /\ move.cursor = down.cursor
                    /\ move.fired = down.fired
                    /\ "getActionInfo" \in Fired(move)

\* a hover move of a session of another pointer type changes nothing and
\* does not run the resolver
C15_OthersUntouched ==
    \A s \in Sessions :
        (C15_Hovers(s) /\ interactions[s].pointerType # "mouse") =>
            \A hint \in Hints, eventTarget \in Elements, moved \in BOOLEAN :
                LET move == onMoveOf(s, hint, eventTarget, moved)
                IN  /\ move.list = interactions
                    /\ move.cursor = Cursor
                    /\ move.fired = <<>>

\* C15 (amended): on every pointer-move of a mouse session whose pointer is
\* not down and which is not active the resolver is re-run exactly as on
\* pointer-down and the session's target, element and prepared action are
\* updated to its result; a hover move of a session of any other pointer
\* type is ignored.
C15_MouseHoverReresolves ==
    C15_MouseAsOnDown /\ C15_OthersUntouched
\* a mouse session whose pointer is up holds a target it found by hovering,
\* and that element bears the cursor of the action
C15_Witness ==
    \E s \in Sessions :
        /\ interactions[s].pointerType = "mouse"
        /\ ~interactions[s].pointerIsDown
        /\ ~interacting(interactions[s])
        /\ interactions[s].prepared # NoName
        /\ autoStart.cursorElement = interactions[s].element
        /\ style[interactions[s].element] = getCursor(interactions[s].prepared)

(***************************************************************************)
(* C16                                                                     *)
(***************************************************************************)
\* a comes before b in the calls and signals of a handler
FiredBefore(fired, a, b) ==
    \E i, j \in DOMAIN fired : i < j /\ fired[i] = a /\ fired[j] = b

\* a session becomes active only at a move of its own, from the prepared
\* state, with the pointer down and movement recorded
C16_ActiveFromPrepared ==
    \A s \in Sessions :
        (~interacting(interactions[s]) /\ interacting(interactions'[s]))
        => /\ last'.op = "move" /\ last'.s = s /\ last'.start = "started"
           /\ interactions[s].pointerIsDown
           /\ interactions'[s].pointerWasMoved
           /\ interactions[s].prepared # NoName
           /\ interactions[s].interactable # Null
           /\ Held(interactions'[s]) = Held(interactions[s])

\* an active session ends idle
C16_IdleAfterActive ==
    \A s \in Sessions :
        (interacting(interactions[s]) /\ ~interacting(interactions'[s]))
        => IsIdle(interactions'[s])

\* a move handler that calls start fires before-start first, and a down
\* handler never calls start
C16_BeforeStartFirst ==
    \A s \in Sessions, hint \in Hints, eventTarget \in Elements :
        /\ "interaction.start" \notin Fired(onDownOf(s, hint, eventTarget))
        /\ \A moved \in BOOLEAN :
              LET move == onMoveOf(s, hint, eventTarget, moved) IN
              "interaction.start" \in Fired(move) =>
                  FiredBefore(move.fired, "autoStart:before-start",
                              "interaction.start")

\* a move of a session with nothing prepared fires no before-start and
\* calls neither start nor stop
C16_NothingPrepared ==
    \A s \in Sessions, hint \in Hints, eventTarget \in Elements,
       moved \in BOOLEAN :
        LET move == onMoveOf(s, hint, eventTarget, moved) IN
        interactions[s].prepared = NoName
        => /\ Fired(move) \cap {"autoStart:before-start",
                                "interaction.start", "interaction.stop"} = {}
           /\ ~interacting(move.list[s])

\* C16: a session goes idle -> prepared -> active -> idle: it becomes
\* active only in a move step in which its pointer is down, movement was
\* recorded and it holds a prepared action with a target (never from
\* idle); that step fires before-start before it calls start; a move with
\* nothing prepared fires no before-start and calls neither start nor stop.
C16_Lifecycle ==
    /\ [] (C16_BeforeStartFirst /\ C16_NothingPrepared)
    /\ [][C16_ActiveFromPrepared /\ C16_IdleAfterActive]_vars
\* a prepared session was just started by its move
C16_Witness ==
    /\ last.op = "move"
    /\ last.start = "started"
    /\ interacting(interactions[last.s])
    /\ interactions[last.s].pointerIsDown
    /\ interactions[last.s].pointerWasMoved
    /\ interactions[last.s].rect = getRect(interactions[last.s].element)

(***************************************************************************)
(* C17                                                                     *)
(***************************************************************************)
\* the handlers made no call and fired no signal, and changed neither what
\* session s holds nor the cursor
C17_Untouched(s, o) ==
    /\ o.fired = <<>>
    /\ Held(o.list[s]) = Held(interactions[s])
    /\ interacting(o.list[s])
    /\ o.cursor = Cursor

C17_DownIgnored ==
    \A s \in Active, hint \in Hints, eventTarget \in Elements :
        C17_Untouched(s, onDownOf(s, hint, eventTarget))

C17_MoveIgnored ==
    \A s \in Active, hint \in Hints, eventTarget \in Elements,
       moved \in BOOLEAN :
        C17_Untouched(s, onMoveOf(s, hint, eventTarget, moved))

\* C17: pointer-down and pointer-move events on an active session are
\* ignored: they leave its target, element, prepared action and rect and
\* the cursor override unchanged, do not run the resolver and fire neither
\* the prepared nor the before-start signal.
C17_ActiveIgnoresEvents == C17_DownIgnored /\ C17_MoveIgnored
\* a pointer event was handled without effect after a session had become
\* active: the session holds what it was started with, the cursor of its
\* action is on its element, and every other session is idle
C17_Witness ==
    \E s \in Sessions :
        /\ interacting(interactions[s])
        /\ interactions[s].pointerType = "mouse"
        /\ last.op = "event"
        /\ autoStart.cursorElement = interactions[s].element
        /\ style[interactions[s].element] = getCursor(interactions[s].prepared)
        /\ \A r \in Sessions \ {s} : IsIdle(interactions[r])

(***************************************************************************)
(* C18                                                                     *)
(***************************************************************************)
\* the nodes of the ancestry whose winner (the first validated candidate
\* in registry order) does not require manual start
C18_AutoNodes(hint, eventTarget) ==
    {node \in Ancestry(eventTarget) :
        /\ ValidatedAt(node, hint, eventTarget) # {}
        /\ ~ManualStart(FirstOf(ValidatedAt(node, hint, eventTarget)), hint)}

\* the reference walk: the winner of the nearest such node, or none
C18_Reference(hint, eventTarget) ==
    LET nodes == C18_AutoNodes(hint, eventTarget) IN
    IF nodes = {} THEN NoActionInfo
    ELSE LET nearest == CHOOSE node \in nodes : \A n \in nodes : n <= node
         IN  [action |-> hint,
              interactable |->
                  FirstOf(ValidatedAt(nearest, hint, eventTarget)),
              element |-> nearest]

\* C18: getActionInfo returns what the reference walk returns: from the
\* event target upward, the first node whose winner - the first target in
\* registry order that proposes an action and passes validation - does not
\* require manual start, with that winner; none when there is no such node.
C18_FirstValidatedNearest ==
    last.op = "getActionInfo" =>
        last.ret = C18_Reference(last.arg.hint, last.arg.eventTarget)

\* the resolver returned a target that is not the first to match the
\* element: an earlier candidate failed validation there and was skipped
C18_Witness ==
    /\ last.op = "getActionInfo"
    /\ last.ret.interactable # Null
    /\ \E t \in Targets :
          /\ t < last.ret.interactable
          /\ last.ret.element \in interactables[t].els
          /\ t \notin ValidatedAt(last.ret.element, last.arg.hint,
                                  last.arg.eventTarget)

(***************************************************************************)
(* C19                                                                     *)
(***************************************************************************)
\* the override is on the element of session s, whose target styles cursors
C19_OverrideOf(s) ==
    /\ ClearsCursor(interactions[s])
    /\ autoStart.cursorElement # Null
    /\ autoStart.cursorElement = interactions[s].element

\* no element and no document bears an override in cursor state c
C19_Cleared(c) ==
    /\ c.cursorElement = Null
    /\ \A e \in Elements : c.style[e] = ""
    /\ c.docCursor = ""

\* handler outcome o leaves session s idle and not started, and clears the
\* override of its element
C19_LeftIdle(s, o) ==
    /\ IsIdle(o.list[s])
    /\ o.list[s].rect = Null
    /\ C19_OverrideOf(s) => C19_Cleared(o.cursor)
    /\ o.start = "no"
    /\ "interaction.start" \notin Fired(o)

\* the down handler and the move handlers of a session that is not active
\* leave it idle when they run the resolver and it finds nothing
C19_IdleOutcome ==
    \A s \in Sessions \ Active, hint \in Hints, eventTarget \in Elements :
        getActionInfo(hint, eventTarget) = NoActionInfo =>
            \A o \in {onDownOf(s, hint, eventTarget)} \cup
                     {onMoveOf(s, hint, eventTarget, moved) :
                         moved \in BOOLEAN} :
                "getActionInfo" \in Fired(o) => C19_LeftIdle(s, o)

\* C19: when the resolver finds no valid target on a pointer-down or a
\* hover pointer-move of a session that is not active, the session is left
\* idle - target and element null, no prepared action, rect null - the
\* cursor override that was in effect for its element is cleared, and its
\* start is not called.
C19_NoneIsIdle == C19_IdleOutcome
\* a mouse session that hovers holds a target and the override is on its
\* element; its pointer moves on where nothing resolves, and the move
\* handler leaves it idle and clears the override
C19_Witness ==
    \E s \in Sessions \ Active, hint \in Hints, eventTarget \in Elements :
        LET o == onMoveOf(s, hint, eventTarget, FALSE) IN
        /\ interactions[s].pointerType = "mouse"
        /\ interactions[s].prepared # NoName
        /\ C19_OverrideOf(s)
        /\ ~C19_Cleared(Cursor)
        /\ getActionInfo(hint, eventTarget) = NoActionInfo
        /\ "getActionInfo" \in Fired(o)
        /\ IsIdle(o.list[s])
        /\ C19_Cleared(o.cursor)

(***************************************************************************)
(* C20                                                                     *)
(***************************************************************************)
\* the session list in another order
Reordered(p) == [i \in Sessions |-> interactions[p[i]]]

\* C20: withinInteractionLimit returns the same for every order of the
\* session list.
C20_OrderIndependent ==
    last.op = "withinInteractionLimit" =>
        \A p \in Permutations(Sessions) :
            withinLimitOf(Reordered(p), autoStart.maxInteractions,
                          last.arg.interactable, last.arg.element,
                          last.arg.name)
            = last.ret.val

=============================================================================
